---- MODULE Spec2Model ----
(***************************************************************************)
(* Model of sphinxcontrib/sqltable.py: the SQLTable directive.             *)
(*                                                                         *)
(* One directive invocation (SQLTable.run) is followed statement by        *)
(* statement; pc is the position inside run.  The database library and the *)
(* host's Table base class are the environment: each call into them either *)
(* returns or raises, and the model follows both outcomes.                 *)
(*                                                                         *)
(* Text is modelled as a sequence of pieces, so that a %-formatted message *)
(* is the concatenation of its literal parts and its arguments and         *)
(* "contains" is a real sub-sequence test.                                 *)
(***************************************************************************)
EXTENDS Integers, Sequences, FiniteSets, TLC

VARIABLES
    pc,                 \* position inside SQLTable.run
    content,            \* self.content: the body lines
    options,            \* self.options
    arguments,          \* self.arguments (the optional title)
    block,              \* self.block_text and self.lineno
    config,             \* config.sqltable_connection_string
    connection_string,  \* local of run
    err,                \* the exception last raised, none at first
    results,            \* the result object conn.execute returned
    table_headers,      \* local of run
    max_cols,           \* local of run
    col_widths,         \* local of run
    title,              \* local of run
    messages,           \* local of run
    ret,                \* the list run returned
    openConns,          \* connections opened and not yet closed
    engineCalls,        \* calls of sqlalchemy.create_engine in this invocation
    connectCalls,       \* calls of engine.connect in this invocation
    execCalls,          \* calls of conn.execute in this invocation
    keysWhileOpen,      \* results.keys() was called with a connection open
    iterCalls,          \* iterations started over the result rows
    iterWhileOpen       \* the rows were iterated with a connection open

vars == <<pc, content, options, arguments, block, config, connection_string,
          err, results, table_headers, max_cols, col_widths, title, messages,
          ret, openConns, engineCalls, connectCalls, execCalls, keysWhileOpen,
          iterCalls, iterWhileOpen>>

----------------------------------------------------------------------------
(* Bounds of the inputs.                                                   *)

MaxLines == 2
MaxCols == 2
MaxRows == 2

----------------------------------------------------------------------------
(* Inputs.                                                                 *)

\* An option is a sequence of length 0 (absent) or 1 (present, its value).
Absent == <<>>
Present(v) == <<v>>

QueryLine(i) ==
    CASE i = 1 -> "SELECT a, b"
      [] i = 2 -> "FROM t"
      [] i = 3 -> "WHERE a > 0"
      [] OTHER -> "ORDER BY a"

Bodies == {[i \in 1..n |-> QueryLine(i)] : n \in 0..MaxLines}

\* Strings that sqlalchemy.create_engine rejects (no such dialect).
InvalidConnectionStrings == {"bogus://nohost"}

ConnectionStringOptions ==
    {Absent, Present(""), Present("sqlite:///block.db"), Present("bogus://nohost")}

Configs == {"", "sqlite:///default.db"}

WidthsOptions == {Absent} \cup {Present([i \in 1..k |-> 10 * i]) : k \in 1..MaxCols}

ClassOptions == {Absent, Present(<<"wide">>)}

NameOptions == {Absent, Present("tbl")}

Options ==
    [connection_string : ConnectionStringOptions,
     widths : WidthsOptions,
     class : ClassOptions,
     name : NameOptions]

Arguments == {<<>>, <<"Results">>, <<"Results *x">>}

Blocks == {[text |-> ".. sqltable:: A", line |-> 3],
           [text |-> ".. sqltable:: B", line |-> 12]}

\* Scalars of a result row.
Null == [kind |-> "null"]
IntCell(n) == [kind |-> "int", i |-> n]
StrCell(t) == [kind |-> "str", s |-> t]

ScalarAt(k) ==
    CASE k % 3 = 0 -> Null
      [] k % 3 = 1 -> IntCell(42)
      [] OTHER -> StrCell("a")

ColumnName(c) ==
    CASE c = 1 -> "a"
      [] c = 2 -> "b"
      [] c = 3 -> "c"
      [] OTHER -> "d"

RowsOf(n) == {[c \in 1..n |-> ScalarAt(c + k)] : k \in 0..2}

\* What the database can answer: n columns and up to MaxRows rows of n cells.
ResultSets ==
    UNION {
        UNION {
            {[keys |-> [c \in 1..n |-> ColumnName(c)], rows |-> rs] :
                rs \in [1..m -> RowsOf(n)]}
            : m \in 0..MaxRows}
        : n \in 0..MaxCols}

NoResults == [keys |-> <<>>, rows |-> <<>>]

NoErr == [site |-> "none", text |-> ""]

Cwd == "/docs"

----------------------------------------------------------------------------
(* Helpers of run.                                                         *)

\* dict.get(key, default): the value stored under the key when the key is
\* present, whatever that value is, and the default only when it is absent.
OptionsGet(opt, default) == IF Len(opt) = 1 THEN opt[1] ELSE default

\* A plausible slip: the body is tested for None, and an empty list is not None.
ContentMissing_IsNone(c) == FALSE

\* "not self.content"
ContentMissing(c) == Len(c) = 0

\* A plausible slip: the string is tested for None, and '' is not None.
Falsy_IsNone(s) == FALSE

\* "not connection_string"
Falsy(s) == s = ""

\* A plausible slip: ' '.join(self.content).
RECURSIVE JoinLines_Space(_)
JoinLines_Space(lines) ==
    IF Len(lines) = 0 THEN <<>>
    ELSE IF Len(lines) = 1 THEN <<lines[1]>>
    ELSE <<lines[1], " ">> \o JoinLines_Space(Tail(lines))

\* '\n'.join(self.content)
RECURSIVE JoinLines(_)
JoinLines(lines) ==
    IF Len(lines) = 0 THEN <<>>
    ELSE IF Len(lines) = 1 THEN <<lines[1]>>
    ELSE <<lines[1], "\n">> \o JoinLines(Tail(lines))

\* self.state_machine.reporter.error(message, literal_block(block_text), line)
ReporterError(message, blk) ==
    [type |-> "error", message |-> message, literal |-> blk.text, line |-> blk.line]

MissingQueryMessage == <<"No query in sqltable directive">>

MissingConnectionStringMessage ==
    <<"No connection_string or sqltable_connection_string was specified for sqltable">>

\* 'Could not connect to %s for sqltable when in %s: %s' % (cs, cwd, err)
ConnectionFailureMessage(cs, cwd, e) ==
    <<"Could not connect to ", cs, " for sqltable when in ", cwd, ": ", e.text>>

\* u'Error with query %s for sqltable: %s' % (query, err)
QueryFailureMessage(query, e) ==
    <<"Error with query ">> \o query \o <<" for sqltable: ", e.text>>

\* 'Error processing sqltable directive:\n%s' % err
ProcessingFailureMessage(e) ==
    <<"Error processing sqltable directive:\n", e.text>>

\* str(cell) for an integer: its decimal digits, with a sign when negative.
Digit(d) ==
    CASE d = 0 -> "0" [] d = 1 -> "1" [] d = 2 -> "2" [] d = 3 -> "3"
      [] d = 4 -> "4" [] d = 5 -> "5" [] d = 6 -> "6" [] d = 7 -> "7"
      [] d = 8 -> "8" [] OTHER -> "9"

RECURSIVE NatToStr(_)
NatToStr(n) == IF n < 10 THEN Digit(n) ELSE NatToStr(n \div 10) \o Digit(n % 10)

IntToStr(n) == IF n < 0 THEN "-" \o NatToStr(0 - n) ELSE NatToStr(n)

\* str(cell): str(None) is 'None'.
Str(cell) ==
    CASE cell.kind = "null" -> "None"
      [] cell.kind = "int" -> IntToStr(cell.i)
      [] OTHER -> cell.s

\* nodes.entry(..., nodes.paragraph(text=t))
Entry(t) == [type |-> "entry", text |-> t]

\* A plausible slip: "if cell is None: continue" in the loop over the cells.
build_table_SkipNull(table_data, widths, headers) ==
    [type |-> "table",
     classes |-> <<>>,
     names |-> <<>>,
     children |-> <<
        [type |-> "tgroup",
         cols |-> Len(widths),
         colspecs |-> [i \in 1..Len(widths) |-> [colwidth |-> widths[i]]],
         thead |-> [i \in 1..Len(headers) |-> Entry(headers[i])],
         tbody |-> [r \in 1..Len(table_data) |->
                     SelectSeq([c \in 1..Len(table_data[r]) |->
                                   Entry(Str(table_data[r][c]))],
                               LAMBDA e : e.text # "None")]]
     >>]

\* SQLTable.build_table, the rows being read without a fault.
build_table(table_data, widths, headers) ==
    [type |-> "table",
     classes |-> <<>>,
     names |-> <<>>,
     children |-> <<
        [type |-> "tgroup",
         cols |-> Len(widths),
         colspecs |-> [i \in 1..Len(widths) |-> [colwidth |-> widths[i]]],
         thead |-> [i \in 1..Len(headers) |-> Entry(headers[i])],
         tbody |-> [r \in 1..Len(table_data) |->
                     [c \in 1..Len(table_data[r]) |-> Entry(Str(table_data[r][c]))]]]
     >>]

\* The table as run finishes it: classes, name, and the title as first child.
FinishTable(node, opts, ttl) ==
    [node EXCEPT
        !.classes = @ \o OptionsGet(opts.class, <<>>),
        !.names = IF Len(opts.name) = 1 THEN @ \o <<opts.name[1]>> ELSE @,
        !.children = ttl \o @]

\* Table.get_column_widths(max_cols) of the host, as run calls it: the widths
\* option when it has max_cols entries, an even share when it is absent and
\* there are columns, and otherwise a SystemMessagePropagation.
WidthsResolvable(opts, n) ==
    IF Len(opts.widths) = 1 THEN Len(opts.widths[1]) = n ELSE n > 0

get_column_widths(opts, n) ==
    IF Len(opts.widths) = 1 THEN opts.widths[1] ELSE [i \in 1..n |-> 100 \div n]

HostError(blk) ==
    [type |-> "error", message |-> <<"column widths do not match the columns">>,
     literal |-> blk.text, line |-> blk.line]

\* Table.make_title() of the host: the title node of the argument, if any,
\* and the messages its inline parse produced.
make_title(args) ==
    IF Len(args) = 0 THEN [title |-> <<>>, messages |-> <<>>]
    ELSE [title |-> <<[type |-> "title", text |-> args[1]]>>,
          messages |-> IF args[1] = "Results *x"
                       THEN <<[type |-> "warning",
                               message |-> <<"Inline emphasis start-string without end-string.">>]>>
                       ELSE <<>>]

----------------------------------------------------------------------------
(* The state machine.                                                      *)

NoOptions == [connection_string |-> Absent, widths |-> Absent,
              class |-> Absent, name |-> Absent]

\* The host has loaded the extension (setup) and read its configuration; no
\* directive is running.
Init ==
    /\ pc = "idle"
    /\ config \in Configs
    /\ content = <<>>
    /\ options = NoOptions
    /\ arguments = <<>>
    /\ block = [text |-> "", line |-> 0]
    /\ connection_string = ""
    /\ err = NoErr
    /\ results = NoResults
    /\ table_headers = <<>>
    /\ max_cols = 0
    /\ col_widths = <<>>
    /\ title = <<>>
    /\ messages = <<>>
    /\ ret = <<>>
    /\ openConns = 0
    /\ engineCalls = 0
    /\ connectCalls = 0
    /\ execCalls = 0
    /\ keysWhileOpen = FALSE
    /\ iterCalls = 0
    /\ iterWhileOpen = FALSE

\* The host meets a sqltable block and calls run on a new directive object.
Invoke ==
    /\ pc = "idle"
    /\ pc' = "check_content"
    /\ content' \in Bodies
    /\ options' \in Options
    /\ arguments' \in Arguments
    /\ block' \in Blocks
    /\ UNCHANGED <<config, connection_string, err, results, table_headers,
                   max_cols, col_widths, title, messages, ret, openConns,
                   engineCalls, connectCalls, execCalls, keysWhileOpen,
                   iterCalls, iterWhileOpen>>

\* run is over (it returned, or an exception left it): the directive object
\* and its locals are dropped.  Connections still open stay open.
Finish ==
    /\ pc \in {"returned", "raised"}
    /\ pc' = "idle"
    /\ content' = <<>>
    /\ options' = NoOptions
    /\ arguments' = <<>>
    /\ block' = [text |-> "", line |-> 0]
    /\ connection_string' = ""
    /\ err' = NoErr
    /\ results' = NoResults
    /\ table_headers' = <<>>
    /\ max_cols' = 0
    /\ col_widths' = <<>>
    /\ title' = <<>>
    /\ messages' = <<>>
    /\ ret' = <<>>
    /\ engineCalls' = 0
    /\ connectCalls' = 0
    /\ execCalls' = 0
    /\ keysWhileOpen' = FALSE
    /\ iterCalls' = 0
    /\ iterWhileOpen' = FALSE
    /\ UNCHANGED <<config, openConns>>

\* run, lines 31-38.
CheckContent ==
    /\ pc = "check_content"
    /\ IF ContentMissing(content)
       THEN /\ ret' = <<ReporterError(MissingQueryMessage, block)>>
            /\ pc' = "returned"
       ELSE /\ ret' = ret
            /\ pc' = "resolve"
    /\ UNCHANGED <<content, options, arguments, block, config, connection_string,
                   err, results, table_headers, max_cols, col_widths, title,
                   messages, openConns, engineCalls, connectCalls, execCalls,
                   keysWhileOpen, iterCalls, iterWhileOpen>>

\* run, lines 40-50.
ResolveConnectionString ==
    /\ pc = "resolve"
    /\ connection_string' = OptionsGet(options.connection_string, config)
    /\ IF Falsy(connection_string')
       THEN /\ ret' = <<ReporterError(MissingConnectionStringMessage, block)>>
            /\ pc' = "returned"
       ELSE /\ ret' = ret
            /\ pc' = "create_engine"
    /\ UNCHANGED <<content, options, arguments, block, config, err, results,
                   table_headers, max_cols, col_widths, title, messages,
                   openConns, engineCalls, connectCalls, execCalls,
                   keysWhileOpen, iterCalls, iterWhileOpen>>

\* run, lines 52-66.  create_engine parses the string and loads the dialect;
\* it opens no connection.
CreateEngine ==
    /\ pc = "create_engine"
    /\ engineCalls' = engineCalls + 1
    /\ IF connection_string \in InvalidConnectionStrings
       THEN /\ err' = [site |-> "create_engine", text |-> "NoSuchModuleError"]
            /\ ret' = <<ReporterError(
                          ConnectionFailureMessage(connection_string, Cwd, err'),
                          block)>>
            /\ pc' = "returned"
       ELSE /\ err' = err
            /\ ret' = ret
            /\ pc' = "connect"
    /\ UNCHANGED <<content, options, arguments, block, config, connection_string,
                   results, table_headers, max_cols, col_widths, title, messages,
                   openConns, connectCalls, execCalls, keysWhileOpen, iterCalls,
                   iterWhileOpen>>

\* run, lines 69-72 and 74-83: engine.connect() opens the connection, or
\* raises (unreachable host, refused login) into the handler of the query.
Connect ==
    /\ pc = "connect"
    /\ connectCalls' = connectCalls + 1
    /\ \E ok \in BOOLEAN :
        IF ok
        THEN /\ openConns' = openConns + 1
             /\ err' = err
             /\ ret' = ret
             /\ pc' = "execute"
        ELSE /\ openConns' = openConns
             /\ err' = [site |-> "connect", text |-> "OperationalError"]
             /\ ret' = <<ReporterError(
                           QueryFailureMessage(JoinLines(content), err'), block)>>
             /\ pc' = "returned"
    /\ UNCHANGED <<content, options, arguments, block, config, connection_string,
                   results, table_headers, max_cols, col_widths, title, messages,
                   engineCalls, execCalls, keysWhileOpen, iterCalls, iterWhileOpen>>

\* run, line 73: conn.execute(query) returns a result object or raises.
Execute ==
    /\ pc = "execute"
    /\ execCalls' = execCalls + 1
    /\ \E ok \in BOOLEAN :
        IF ok
        THEN /\ results' \in ResultSets
             /\ err' = err
        ELSE /\ results' = results
             /\ err' = [site |-> "execute", text |-> "ProgrammingError"]
    /\ pc' = "with_exit"
    /\ UNCHANGED <<content, options, arguments, block, config, connection_string,
                   table_headers, max_cols, col_widths, title, messages, ret,
                   openConns, engineCalls, connectCalls, keysWhileOpen, iterCalls,
                   iterWhileOpen>>

\* A plausible slip: conn = engine.connect(); results = conn.execute(query);
\* conn.close() -- the close is skipped when execute raises.
WithExit_LeakOnError ==
    /\ pc = "with_exit"
    /\ IF err.site = "none"
       THEN /\ openConns' = openConns - 1
            /\ ret' = ret
            /\ pc' = "keys"
       ELSE /\ openConns' = openConns
            /\ ret' = <<ReporterError(
                          QueryFailureMessage(JoinLines(content), err), block)>>
            /\ pc' = "returned"
    /\ UNCHANGED <<content, options, arguments, block, config, connection_string,
                   err, results, table_headers, max_cols, col_widths, title,
                   messages, engineCalls, connectCalls, execCalls, keysWhileOpen,
                   iterCalls, iterWhileOpen>>

\* A plausible slip: the rest of run is indented into the with block, so the
\* connection is closed only when run leaves, after the result was read.
WithExit_CloseLate ==
    /\ pc = "with_exit"
    /\ IF err.site = "none"
       THEN /\ openConns' = openConns
            /\ ret' = ret
            /\ pc' = "keys"
       ELSE /\ openConns' = openConns - 1
            /\ ret' = <<ReporterError(
                          QueryFailureMessage(JoinLines(content), err), block)>>
            /\ pc' = "returned"
    /\ UNCHANGED <<content, options, arguments, block, config, connection_string,
                   err, results, table_headers, max_cols, col_widths, title,
                   messages, engineCalls, connectCalls, execCalls, keysWhileOpen,
                   iterCalls, iterWhileOpen>>

\* run, lines 72 and 74-83: leaving the with block closes the connection,
\* with or without an exception in flight; the exception then reaches the
\* handler.
WithExit ==
    /\ pc = "with_exit"
    /\ openConns' = openConns - 1
    /\ IF err.site = "none"
       THEN /\ ret' = ret
            /\ pc' = "keys"
       ELSE /\ ret' = <<ReporterError(
                          QueryFailureMessage(JoinLines(content), err), block)>>
            /\ pc' = "returned"
    /\ UNCHANGED <<content, options, arguments, block, config, connection_string,
                   err, results, table_headers, max_cols, col_widths, title,
                   messages, engineCalls, connectCalls, execCalls, keysWhileOpen,
                   iterCalls, iterWhileOpen>>

\* run, lines 86-89, outside every try: results.keys() returns the column
\* names or raises (a result object that returns no rows, or is closed).
ReadKeys ==
    /\ pc = "keys"
    /\ keysWhileOpen' = (keysWhileOpen \/ openConns > 0)
    /\ \E ok \in BOOLEAN :
        IF ok
        THEN /\ table_headers' = results.keys
             /\ max_cols' = Len(results.keys)
             /\ err' = err
             /\ pc' = "widths"
        ELSE /\ table_headers' = table_headers
             /\ max_cols' = max_cols
             /\ err' = [site |-> "keys", text |-> "ResourceClosedError"]
             /\ pc' = "raised"
    /\ UNCHANGED <<content, options, arguments, block, config, connection_string,
                   results, col_widths, title, messages, ret, openConns,
                   engineCalls, connectCalls, execCalls, iterCalls, iterWhileOpen>>

\* run, lines 91-103.
ResolveWidthsAndTitle ==
    /\ pc = "widths"
    /\ \E fault \in BOOLEAN :
        IF fault
        THEN /\ err' = [site |-> "widths", text |-> "Exception"]
             /\ ret' = <<ReporterError(ProcessingFailureMessage(err'), block)>>
             /\ pc' = "returned"
             /\ UNCHANGED <<col_widths, title, messages>>
        ELSE IF ~WidthsResolvable(options, max_cols)
        THEN /\ err' = [site |-> "widths", text |-> "SystemMessagePropagation"]
             /\ ret' = <<HostError(block)>>
             /\ pc' = "returned"
             /\ UNCHANGED <<col_widths, title, messages>>
        ELSE /\ col_widths' = get_column_widths(options, max_cols)
             /\ title' = make_title(arguments).title
             /\ messages' = make_title(arguments).messages
             /\ err' = err
             /\ ret' = ret
             /\ pc' = "build"
    /\ UNCHANGED <<content, options, arguments, block, config, connection_string,
                   results, table_headers, max_cols, openConns, engineCalls,
                   connectCalls, execCalls, keysWhileOpen, iterCalls, iterWhileOpen>>

\* run, lines 105-111, outside every try: build_table iterates the rows; a
\* fetch or a str(cell) that raises leaves run as an exception.
BuildTable ==
    /\ pc = "build"
    /\ iterCalls' = iterCalls + 1
    /\ iterWhileOpen' = (iterWhileOpen \/ openConns > 0)
    /\ \E ok \in BOOLEAN :
        IF ok
        THEN /\ ret' = <<FinishTable(
                           build_table(results.rows, col_widths, table_headers),
                           options, title)>> \o messages
             /\ err' = err
             /\ pc' = "returned"
        ELSE /\ ret' = ret
             /\ err' = [site |-> "rows", text |-> "ResourceClosedError"]
             /\ pc' = "raised"
    /\ UNCHANGED <<content, options, arguments, block, config, connection_string,
                   results, table_headers, max_cols, col_widths, title, messages,
                   openConns, engineCalls, connectCalls, execCalls, keysWhileOpen>>

Next ==
    \/ Invoke
    \/ CheckContent
    \/ ResolveConnectionString
    \/ CreateEngine
    \/ Connect
    \/ Execute
    \/ WithExit
    \/ ReadKeys
    \/ ResolveWidthsAndTitle
    \/ BuildTable
    \/ Finish

Spec == Init /\ [][Next]_vars

----------------------------------------------------------------------------
(* Vocabulary of the claims.                                               *)

Running == pc # "idle"

Over == pc \in {"returned", "raised"}

\* The error marker the reporter builds for this block with the given message.
Marker(message) ==
    [type |-> "error", message |-> message, literal |-> block.text, line |-> block.line]

IsErrorMarker(n) == n.type = "error" /\ n.literal = block.text /\ n.line = block.line

ReturnedTable == pc = "returned" /\ Len(ret) >= 1 /\ ret[1].type = "table"

\* The tgroup of the returned table: its last child (a title comes first).
Tgroup == ret[1].children[Len(ret[1].children)]

\* The body lines joined with newlines, written out position by position.
QueryText ==
    [i \in 1..(2 * Len(content) - 1) |->
        IF i % 2 = 1 THEN content[(i + 1) \div 2] ELSE "\n"]

Contains(message, piece) ==
    \E i \in 1..Len(message) :
        /\ i + Len(piece) - 1 <= Len(message)
        /\ SubSeq(message, i, i + Len(piece) - 1) = piece

OptionValue == options.connection_string

\* The query ran and gave a result object.
QuerySucceeded ==
    execCalls = 1 /\ pc \in {"keys", "widths", "build", "returned", "raised"}
                  /\ err.site \notin {"create_engine", "connect", "execute"}

----------------------------------------------------------------------------
(* The claims.                                                             *)

\* C1: run always returns a list of nodes and no exception ever escapes it;
\* every failure ends in returned error markers that carry the block's raw
\* text and line number.
C1_NoExceptionEscapes ==
    /\ pc # "raised"
    /\ (pc = "returned" /\ err.site # "none") =>
           /\ Len(ret) >= 1
           /\ \A i \in 1..Len(ret) : IsErrorMarker(ret[i])

\* C2: with an empty body, whatever the options and the default, run returns
\* exactly the one 'No query in sqltable directive' marker and no table, and
\* no engine is created, no connection opened and no query executed.
C2_EmptyBodyIsMissingQuery ==
    (Running /\ Len(content) = 0) =>
        /\ pc \in {"check_content", "returned"}
        /\ engineCalls = 0 /\ connectCalls = 0 /\ execCalls = 0 /\ openConns = 0
        /\ pc = "returned" => ret = <<Marker(<<"No query in sqltable directive">>)>>

C2_Witness ==
    /\ pc = "returned"
    /\ Len(content) = 0
    /\ OptionValue = Present("sqlite:///block.db")
    /\ config = "sqlite:///default.db"
    /\ ret = <<Marker(<<"No query in sqltable directive">>)>>

\* C3: with a non-empty body and no non-empty connection string from either
\* the option or the configured default, run returns exactly the one
\* MissingConnectionString marker and no table, and never tries to create an
\* engine or open a connection.
C3_NoConnectionStringIsError ==
    (/\ pc \notin {"idle", "check_content", "resolve"}
     /\ Len(content) > 0
     /\ (OptionValue = Absent \/ OptionValue = Present(""))
     /\ config = "") =>
        /\ pc = "returned"
        /\ ret = <<Marker(<<"No connection_string or sqltable_connection_string was specified for sqltable">>)>>
        /\ engineCalls = 0 /\ connectCalls = 0 /\ execCalls = 0 /\ openConns = 0

C3_Witness ==
    /\ pc = "returned"
    /\ Len(content) > 0
    /\ OptionValue = Absent
    /\ config = ""
    /\ Len(ret) = 1 /\ ret[1].type = "error"

\* C4: the connection string used is the option when the option is present
\* and non-empty, and the configured default otherwise; with the option
\* present but empty and a non-empty default, the default is used and no
\* MissingConnectionString error is reported.
C4_EmptyOptionFallsBackToDefault ==
    (pc \notin {"idle", "check_content", "resolve"} /\ Len(content) > 0) =>
        /\ connection_string =
              IF OptionValue # Absent /\ OptionValue[1] # "" THEN OptionValue[1]
              ELSE config
        /\ (OptionValue = Present("") /\ config # "") =>
              ~(pc = "returned" /\ engineCalls = 0)

\* C5: every connection an invocation opened is closed by the time run is
\* over, on every exit path, so that no invocation starts or ends with a
\* connection open.
C5_NoConnectionLeftOpen ==
    (pc \in {"idle", "check_content", "resolve", "create_engine", "connect",
             "returned", "raised"}) => openConns = 0

C5_Witness ==
    /\ pc = "returned"
    /\ connectCalls = 1
    /\ err.site = "execute"
    /\ openConns = 0

\* C6: any failure to acquire the connection, at create_engine or when the
\* connection is actually opened, yields exactly the one 'Could not connect
\* to <connection string> for sqltable when in <cwd>: <cause>' marker, no
\* table, and the query is never executed.
C6_AcquisitionFailureIsConnectionFailure ==
    (pc = "returned" /\ err.site \in {"create_engine", "connect"}) =>
        /\ ret = <<Marker(<<"Could not connect to ", connection_string,
                            " for sqltable when in ", Cwd, ": ", err.text>>)>>
        /\ execCalls = 0

\* C7: when the connection opened and executing the query failed, run
\* returns exactly the one 'Error with query <query text> for sqltable:
\* <cause>' marker, whose message contains the body lines joined with
\* newlines, and no table; the query is executed once only.
C7_QueryFailureIsReportedOnce ==
    /\ execCalls <= 1
    /\ (pc = "returned" /\ err.site = "execute") =>
        /\ Len(content) > 0
        /\ connectCalls = 1 /\ execCalls = 1
        /\ ret = <<Marker(<<"Error with query ">> \o QueryText
                          \o <<" for sqltable: ", err.text>>)>>
        /\ Contains(ret[1].message, QueryText)

C7_Witness ==
    /\ pc = "returned"
    /\ err.site = "execute"
    /\ Len(content) = 2
    /\ Len(ret) = 1 /\ ret[1].type = "error"

\* C8, as claimed: whenever the query gave N columns and M rows, run returns
\* a table, not an error, with N header cells in column order, M body rows
\* in result order, N cells in every body row and N column-width hints.
TableMatchesResult ==
    /\ Len(Tgroup.thead) = Len(results.keys)
    /\ \A i \in 1..Len(results.keys) : Tgroup.thead[i].text = results.keys[i]
    /\ Len(Tgroup.tbody) = Len(results.rows)
    /\ \A r \in 1..Len(results.rows) :
          /\ Len(Tgroup.tbody[r]) = Len(results.keys)
          /\ \A c \in 1..Len(results.keys) :
                Tgroup.tbody[r][c].text = Str(results.rows[r][c])
    /\ Len(Tgroup.colspecs) = Len(results.keys)
    /\ Tgroup.cols = Len(results.keys)

C9_NullIsEmptyString ==
    ReturnedTable =>
        \A r \in 1..Len(results.rows) :
            \A c \in 1..Len(results.rows[r]) :
                /\ c <= Len(Tgroup.tbody[r])
                /\ Tgroup.tbody[r][c].text =
                      IF results.rows[r][c] = Null THEN ""
                      ELSE Str(results.rows[r][c])

\* C10: the connection the query ran on is closed before the column names
\* are read and before build_table iterates the rows; no row is read with
\* the connection open, and the rows are iterated at most once.
C10_ResultReadAfterClose ==
    /\ pc \in {"keys", "widths", "build"} => openConns = 0
    /\ ~keysWhileOpen
    /\ ~iterWhileOpen
    /\ iterCalls <= 1

C10_Witness ==
    /\ ReturnedTable
    /\ iterCalls = 1
    /\ Len(results.rows) >= 1
    /\ openConns = 0

====
